---- MODULE Spec2Model ----
(***************************************************************************)
(* Scanner agent of pc-monitoring-system: the scan scheduler               *)
(* (scanner-agent/src/core/scheduler.py), the orchestrator loop            *)
(* (scanner-agent/src/main.py), the remote client                          *)
(* (scanner-agent/src/core/api_client.py) and the configuration            *)
(* (scanner-agent/src/core/config.py).                                     *)
(*                                                                         *)
(* Time is counted in seconds.  The scheduler is checked twice: driven by  *)
(* arbitrary calls of its public methods (SchedSpec) and driven by the     *)
(* orchestrator loop (Spec).  The remote client is also driven through its *)
(* public methods (ClientSpec).  The server's threat analyzer              *)
(* (api-server/app/services/threat_analyzer.py) is called directly and     *)
(* through POST /scans (AnalyzerSpec).                                     *)
(***************************************************************************)
EXTENDS Integers, Sequences, FiniteSets, TLC

VARIABLES
    now,                    \* wall clock, datetime.now()
    scan_interval_minutes,  \* Config.scan_interval_minutes
    check_interval,         \* Config.check_interval (seconds)
    saved_config,           \* content of config.json as written by save_config
    last_scan_time,         \* ScanScheduler.last_scan_time (None when unset)
    next_scan_time,         \* ScanScheduler.next_scan_time
    pc,                     \* position of run_continuous
    scan_data,              \* the envelope of the latest perform_scan
    step,                   \* history: the operation of the latest step
    lastOp,                 \* history: the latest operation that touched the scheduler or the interval
    opTime,                 \* history: the time of lastOp
    old_interval,           \* history: the interval the latest update_interval replaced
    repeatGap,              \* history: seconds between an update_interval(n) and the update_interval(n) it repeats
    task_info,              \* history: result of check_tasks in this iteration
    forcedScan,             \* history: outcome of the perform_scan of check_for_tasks in this iteration
    schedScan,              \* history: outcome of the perform_scan of run_continuous in this iteration
    markCalls,              \* history: calls of mark_scan_completed in this iteration
    schedDue,               \* history: what should_scan() answered in this iteration
    cfgApplied,             \* history: update_from_server returned normally in this iteration
    session,                \* APIClient.session: "none", "open" or "closed"
    sessionCount,           \* history: ClientSession objects created, and how many of them are not closed
    exit_status,            \* exit status of the process (None while it runs)
    singleScan,             \* history: outcome of the perform_scan of run_single_scan
    client_call,            \* history: the APIClient method called last
    client_answer,          \* history: what the network and the server did with its request
    client_result,          \* history: what the method returned
    machine_id,             \* ThreatAnalyzer: the machine_id argument
    payload,                \* ThreatAnalyzer: the scan_data argument
    analysis,               \* history: the latest call of analyze_scan_data and its result
    prev_analysis           \* history: the call before it

vars == <<now, scan_interval_minutes, check_interval, saved_config,
          last_scan_time, next_scan_time, pc, scan_data, step, lastOp,
          opTime, old_interval, repeatGap,
          task_info, forcedScan, schedScan, markCalls, schedDue, cfgApplied,
          session, sessionCount, exit_status, singleScan,
          client_call, client_answer, client_result,
          machine_id, payload, analysis, prev_analysis>>

schedVars == <<last_scan_time, next_scan_time>>
configVars == <<scan_interval_minutes, check_interval, saved_config>>
iterVars == <<task_info, forcedScan, schedScan, markCalls, schedDue, cfgApplied>>
mainVars == <<exit_status, singleScan>>
clientVars == <<client_call, client_answer, client_result>>
analyzerVars == <<machine_id, payload, analysis, prev_analysis>>

-----------------------------------------------------------------------------
(* Bounds and program constants                                            *)

MaxTime == 360

\* the ClientSession objects one APIClient may create
MaxSessions == 3

None == -1

DefaultScanIntervalMinutes == 60
DefaultCheckInterval == 300
CooldownSeconds == 60

\* values config.json or the server may give to the two intervals
ScanIntervalChoices == {1, 2, DefaultScanIntervalMinutes}
CheckIntervalChoices == {60, DefaultCheckInterval}

\* how long a perform_scan may take, and how far the clock moves between
\* two calls of the scheduler's methods
ScanDurations == {0, 60}
TickSteps == {60, 120}

\* the scanners _load_scanners registers, in insertion order, each enabled
\* by default (modules_config.get(name, True)).  As written, main.py reads
\* the module switches through Config.get and passes config_path to Config(),
\* neither of which core/config.py provides; the model starts from the agent
\* constructed with the four default scanners.
Scanners == <<"system", "software", "processes", "network">>

EnvelopeKeys == {"timestamp", "machine_id", "manager_id", "scan_type", "data"}

-----------------------------------------------------------------------------
(* ScanScheduler                                                           *)

\* timedelta(minutes=m) in seconds
Minutes(m) == m * 60

\* mutant: the next scan is counted from the time of the call
CalculateNextScanFromNow(last, interval, t) ==
    IF last = None THEN t ELSE t + Minutes(interval)

\* _calculate_next_scan: the value it assigns to next_scan_time
CalculateNextScan(last, interval, t) ==
    IF last = None THEN t ELSE last + Minutes(interval)

\* mutant: strict comparison
ShouldScanAtStrict(next, t) ==
    IF next = None THEN TRUE ELSE t > next

\* should_scan() evaluated at time t
ShouldScanAt(next, t) ==
    IF next = None THEN TRUE ELSE t >= next

ShouldScan == ShouldScanAt(next_scan_time, now)

\* get_time_until_next_scan()
TimeUntilNextScan ==
    IF next_scan_time = None THEN 0
    ELSE IF now >= next_scan_time THEN 0 ELSE next_scan_time - now

\* mark_scan_completed() called at time t
MarkScanCompleted(t) ==
    /\ last_scan_time' = t
    /\ next_scan_time' = CalculateNextScan(t, scan_interval_minutes, t)

\* mutant: forcing by forgetting the last scan
ForceNextScanForgetLast ==
    /\ last_scan_time' = None
    /\ next_scan_time' = now

\* force_next_scan()
ForceNextScan ==
    /\ next_scan_time' = now
    /\ UNCHANGED last_scan_time

\* mutant: the interval is stored but the next scan is not recomputed
UpdateIntervalNoRecompute(n) ==
    /\ scan_interval_minutes' = n
    /\ UNCHANGED <<last_scan_time, next_scan_time>>

\* update_interval(n)
UpdateInterval(n) ==
    /\ scan_interval_minutes' = n
    /\ next_scan_time' = CalculateNextScan(last_scan_time, n, now)
    /\ UNCHANGED last_scan_time

-----------------------------------------------------------------------------
(* Config.update_from_server                                               *)

\* a config_updates value: the key may be missing from the directive, may
\* be null, or is a mapping in which each recognised field may be missing
NoUpdates == [present |-> FALSE, null |-> FALSE,
              scan_interval_minutes |-> None, check_interval |-> None]

NullUpdates == [present |-> TRUE, null |-> TRUE,
                scan_interval_minutes |-> None, check_interval |-> None]

Updates(s, c) == [present |-> TRUE, null |-> FALSE,
                  scan_interval_minutes |-> s, check_interval |-> c]

ConfigUpdateChoices ==
    {NoUpdates, NullUpdates, Updates(1, None), Updates(None, 60),
     Updates(2, DefaultCheckInterval)}

\* update_from_server(server_config) for a mapping server_config
UpdateFromServer(cu) ==
    LET newScan == IF cu.scan_interval_minutes # None
                   THEN cu.scan_interval_minutes ELSE scan_interval_minutes
        newCheck == IF cu.check_interval # None
                    THEN cu.check_interval ELSE check_interval
        updated == newScan # scan_interval_minutes \/ newCheck # check_interval
    IN  /\ scan_interval_minutes' = newScan
        /\ check_interval' = newCheck
        /\ saved_config' = IF updated
                           THEN [scan_interval_minutes |-> newScan,
                                 check_interval |-> newCheck]
                           ELSE saved_config

-----------------------------------------------------------------------------
(* APIClient                                                               *)

\* what the network and the server do with one request
TransportFailure == [kind |-> "transport", status |-> None, format |-> "none",
                     success |-> "absent", should_scan |-> "absent",
                     config_updates |-> NoUpdates, scan_token |-> FALSE]

\* an exception that is not an aiohttp.ClientError raised before the session
\* exists (creating the session fails)
UnexpectedFailure == [TransportFailure EXCEPT !.kind = "unexpected"]

\* the total timeout of the session expires: asyncio.TimeoutError, which is
\* not an aiohttp.ClientError
TimeoutFailure == [TransportFailure EXCEPT !.kind = "timeout"]

HttpAnswer(status, format, success, should_scan, cu, token) ==
    [kind |-> "http", status |-> status, format |-> format,
     success |-> success, should_scan |-> should_scan,
     config_updates |-> cu, scan_token |-> token]

HttpError(status) ==
    HttpAnswer(status, "text", "absent", "absent", NoUpdates, FALSE)

ErrorStatuses == {401, 500}

\* mutant: the status code is left out of the failure
FailureResultNoStatus(error, status) ==
    [shape |-> "dict", success |-> "false", error |-> error,
     body_in_error |-> (error = "http"),
     status_code |-> None, data |-> FALSE, should_scan |-> "absent",
     config_updates |-> NoUpdates, scan_token |-> FALSE]

\* the dict a failure of _make_request is reported as; the error text of an
\* HTTP failure contains the response body
FailureResult(error, status) ==
    [shape |-> "dict", success |-> "false", error |-> error,
     body_in_error |-> (error = "http"),
     status_code |-> status, data |-> FALSE, should_scan |-> "absent",
     config_updates |-> NoUpdates, scan_token |-> FALSE]

\* _make_request: the value returned for an outcome of the request
MakeRequest(o) ==
    IF o.kind = "transport" THEN FailureResult("connection", None)
    ELSE IF o.kind \in {"unexpected", "timeout"}
         THEN FailureResult("unexpected", None)
    ELSE IF o.status = 200
         THEN IF o.format = "json_object"
              THEN [shape |-> "dict", success |-> o.success, error |-> "none",
                    body_in_error |-> FALSE, status_code |-> None, data |-> FALSE,
                    should_scan |-> o.should_scan,
                    config_updates |-> o.config_updates,
                    scan_token |-> o.scan_token]
              ELSE IF o.format = "json_other"
              THEN [shape |-> "other", success |-> "absent", error |-> "none",
                    body_in_error |-> FALSE, status_code |-> None, data |-> FALSE,
                    should_scan |-> "absent", config_updates |-> NoUpdates,
                    scan_token |-> FALSE]
              ELSE [shape |-> "dict", success |-> "true", error |-> "none",
                    body_in_error |-> FALSE, status_code |-> None, data |-> TRUE,
                    should_scan |-> "absent", config_updates |-> NoUpdates,
                    scan_token |-> FALSE]
    ELSE FailureResult("http", o.status)

\* _get_session: the session after a request whose outcome is o; a session
\* that is missing or closed is replaced unless creating it fails
GetSession(s, o) ==
    IF o.kind = "unexpected" THEN s ELSE "open"

NoSessions == [created |-> 0, open |-> 0]

\* mutant: every request creates a session and abandons the open one
CountSessionsAlwaysNew(c, s, o) ==
    IF o.kind = "unexpected" THEN c
    ELSE [created |-> c.created + 1, open |-> c.open + 1]

\* _get_session: the sessions created so far and those of them still open,
\* after a request made in session state s whose outcome is o; a session is
\* created only when self.session is None or closed
CountSessions(c, s, o) ==
    IF s = "open" \/ o.kind = "unexpected" THEN c
    ELSE [created |-> c.created + 1, open |-> c.open + 1]

\* response.get('success') is truthy
Success(r) == r.success = "true"

\* send_scan_data and check_tasks call response.get: a JSON answer that is
\* not an object makes them raise
ClientRaises(r) == r.shape # "dict"

\* a JSON object answering the task check
Directive(success, should_scan, cu) ==
    HttpAnswer(200, "json_object", success, should_scan, cu, FALSE)

\* answers to GET /agent/check-task
TaskOutcomes ==
    {TransportFailure, UnexpectedFailure}
        \cup {HttpError(st) : st \in ErrorStatuses}
        \cup {HttpAnswer(200, "text", "absent", "absent", NoUpdates, FALSE),
              HttpAnswer(200, "json_other", "absent", "absent", NoUpdates, FALSE),
              Directive("absent", "absent", NoUpdates),
              Directive("absent", "true", NoUpdates),
              Directive("true", "true", Updates(1, None)),
              Directive("true", "true", NullUpdates)}
        \cup {Directive("true", "false", cu) : cu \in ConfigUpdateChoices}

\* answers to POST /scans
SendOutcomes ==
    {TransportFailure, UnexpectedFailure}
        \cup {HttpError(st) : st \in ErrorStatuses}
        \cup {HttpAnswer(200, "text", "absent", "absent", NoUpdates, FALSE),
              HttpAnswer(200, "json_other", "absent", "absent", NoUpdates, FALSE),
              HttpAnswer(200, "json_object", "absent", "absent", NoUpdates, FALSE),
              HttpAnswer(200, "json_object", "false", "absent", NoUpdates, FALSE),
              HttpAnswer(200, "json_object", "true", "absent", NoUpdates, FALSE),
              HttpAnswer(200, "json_object", "true", "absent", NoUpdates, TRUE)}

-----------------------------------------------------------------------------
(* ScannerAgent.perform_scan                                               *)

\* the inputs of one perform_scan: the scanner whose scan() raises (0 when
\* none does), the answer to the POST and the time the scan takes
NoScanInput == [failAt |-> 0, send |-> TransportFailure, d |-> 0]

ScanInputs ==
    {[failAt |-> f, send |-> TransportFailure, d |-> d] :
        f \in 1..Len(Scanners), d \in ScanDurations}
        \cup {[failAt |-> 0, send |-> o, d |-> d] :
                o \in SendOutcomes, d \in ScanDurations}

\* the envelope after perform_scan: the scanners before the failing one
\* have stored their data, and send_scan_data has added machine_name
ScanEnvelope(in) ==
    IF in.failAt = 0
    THEN [keys |-> EnvelopeKeys \cup {"machine_name"},
          modules |-> {Scanners[i] : i \in 1..Len(Scanners)}]
    ELSE [keys |-> EnvelopeKeys,
          modules |-> {Scanners[i] : i \in 1..(in.failAt - 1)}]

\* mutant: a scanner's exception is swallowed and the partial envelope sent
PerformScanSendsAnyway(in) ==
    LET response == MakeRequest(in.send)
    IN  IF ClientRaises(response) THEN "send_raised"
        ELSE IF Success(response) THEN "send_ok"
        ELSE "send_fail"

\* how perform_scan ends
PerformScan(in) ==
    IF in.failAt # 0 THEN "module_raised"
    ELSE LET response == MakeRequest(in.send)
         IN  IF ClientRaises(response) THEN "send_raised"
             ELSE IF Success(response) THEN "send_ok"
             ELSE "send_fail"

Raises(outcome) == outcome \in {"module_raised", "send_raised"}

Sent(outcome) == outcome \in {"send_ok", "send_fail", "send_raised"}

-----------------------------------------------------------------------------
(* Initial state: ScannerAgent.__init__                                    *)

NoResult == [shape |-> "none"]

\* a dict without keys, as scan_data.get("security_scan", {}) gives it
EmptyDict == <<>>

\* no call of analyze_scan_data yet
NoAnalysis ==
    [call |-> "none", outcome |-> "none", threats |-> <<>>, at |-> None,
     status |-> None, scan_stored |-> FALSE]

FreshIteration ==
    /\ task_info = NoResult
    /\ forcedScan = "none"
    /\ schedScan = "none"
    /\ markCalls = 0
    /\ schedDue = "unknown"
    /\ cfgApplied = FALSE

Init ==
    /\ now = 0
    /\ scan_interval_minutes \in ScanIntervalChoices
    /\ check_interval \in CheckIntervalChoices
    /\ saved_config = [scan_interval_minutes |-> scan_interval_minutes,
                       check_interval |-> check_interval]
    /\ last_scan_time = None
    /\ next_scan_time = CalculateNextScan(None, scan_interval_minutes, now)
    /\ pc \in {"check", "single"}
    /\ scan_data = [keys |-> {}, modules |-> {}]
    /\ step = "init"
    /\ lastOp = "init"
    /\ opTime = 0
    /\ old_interval = None
    /\ repeatGap = None
    /\ FreshIteration
    /\ session = "none"
    /\ sessionCount = NoSessions
    /\ exit_status = None
    /\ singleScan = "none"
    /\ client_call = "none"
    /\ client_answer = TransportFailure
    /\ client_result = NoResult
    /\ machine_id = "none"
    /\ payload = EmptyDict
    /\ analysis = NoAnalysis
    /\ prev_analysis = NoAnalysis

-----------------------------------------------------------------------------
(* The scheduler driven through its public methods                         *)

agentVars == <<pc, scan_data, task_info, forcedScan, schedScan, markCalls,
               schedDue, cfgApplied, session, sessionCount, exit_status,
               singleScan, client_call, client_answer, client_result,
               analyzerVars>>

SchedTick(d) ==
    /\ now + d <= MaxTime
    /\ now' = now + d
    /\ step' = "tick"
    /\ UNCHANGED <<schedVars, configVars, lastOp, opTime, old_interval,
                   repeatGap, agentVars>>

SchedMark ==
    /\ MarkScanCompleted(now)
    /\ step' = "mark"
    /\ lastOp' = "mark"
    /\ opTime' = now
    /\ repeatGap' = None
    /\ UNCHANGED <<now, configVars, old_interval, agentVars>>

SchedForce ==
    /\ ForceNextScan
    /\ step' = "force"
    /\ lastOp' = "force"
    /\ opTime' = now
    /\ repeatGap' = None
    /\ UNCHANGED <<now, configVars, old_interval, agentVars>>

SchedUpdate(n) ==
    /\ UpdateInterval(n)
    /\ old_interval' = scan_interval_minutes
    /\ step' = "update"
    /\ lastOp' = "update"
    /\ opTime' = now
    /\ repeatGap' = IF lastOp = "update" /\ n = scan_interval_minutes
                    THEN now - opTime ELSE None
    /\ UNCHANGED <<now, check_interval, saved_config, agentVars>>

SchedNext ==
    \/ \E d \in TickSteps : SchedTick(d)
    \/ SchedMark
    \/ SchedForce
    \/ \E n \in ScanIntervalChoices : SchedUpdate(n)

SchedSpec == Init /\ [][SchedNext]_vars

-----------------------------------------------------------------------------
(* ScannerAgent.run_continuous                                             *)

schedHistory == <<opTime, old_interval, repeatGap>>

\* mutant: the directive counts only in an answer that reports success
DirectiveShouldScanIfSuccess(r) == r.success = "true" /\ r.should_scan = "true"

\* mutant: a missing should_scan counts as true
DirectiveShouldScanDefaultTrue(r) == r.should_scan # "false"

\* task_info.get('should_scan') is truthy
DirectiveShouldScan(r) == r.should_scan = "true"

\* check_for_tasks(): the task check, the scan the directive asks for and
\* the config update; every exception ends the handler
CheckForTasks(o, in) ==
    /\ pc = "check"
    /\ LET r == MakeRequest(o)
           force == ~ClientRaises(r) /\ DirectiveShouldScan(r)
           outcome == IF force THEN PerformScan(in) ELSE "none"
           hasUpdates == /\ ~ClientRaises(r)
                         /\ ~Raises(outcome)
                         /\ r.config_updates.present
           applies == hasUpdates /\ ~r.config_updates.null
       IN  /\ force \/ in = NoScanInput
           /\ now + in.d <= MaxTime
           /\ now' = now + in.d
           /\ task_info' = r
           /\ forcedScan' = outcome
           /\ scan_data' = IF force THEN ScanEnvelope(in) ELSE scan_data
           /\ IF applies
              THEN UpdateFromServer(r.config_updates)
              ELSE UNCHANGED configVars
           /\ cfgApplied' = applies
           /\ lastOp' = IF scan_interval_minutes' # scan_interval_minutes
                        THEN "config" ELSE lastOp
           /\ opTime' = IF scan_interval_minutes' # scan_interval_minutes
                        THEN now + in.d ELSE opTime
           /\ session' = IF force /\ in.failAt = 0
                         THEN GetSession(GetSession(session, o), in.send)
                         ELSE GetSession(session, o)
           /\ sessionCount' =
                 IF force /\ in.failAt = 0
                 THEN CountSessions(CountSessions(sessionCount, session, o),
                                    GetSession(session, o), in.send)
                 ELSE CountSessions(sessionCount, session, o)
    /\ pc' = "decide"
    /\ step' = "check_for_tasks"
    /\ UNCHANGED <<schedVars, old_interval, repeatGap, schedScan, markCalls,
                   schedDue, mainVars, clientVars, analyzerVars>>

\* mutant: no except Exception clause, the exception ends the loop
LoopAfterScanEscapes(outcome) ==
    IF Raises(outcome) THEN "stopped" ELSE "sleep"

\* where run_continuous goes after the scheduled perform_scan: an exception
\* skips mark_scan_completed and the sleep and is caught by except Exception
LoopAfterScan(outcome) ==
    IF Raises(outcome) THEN "cooldown" ELSE "sleep"

\* if self.scheduler.should_scan(): perform_scan(); mark_scan_completed()
ScheduledScan(in) ==
    /\ pc = "decide"
    /\ step' = "scheduled_scan"
    /\ IF ShouldScan
       THEN /\ now + in.d <= MaxTime
            /\ now' = now + in.d
            /\ schedDue' = "due"
            /\ schedScan' = PerformScan(in)
            /\ scan_data' = ScanEnvelope(in)
            /\ session' = IF in.failAt = 0
                          THEN GetSession(session, in.send) ELSE session
            /\ sessionCount' = IF in.failAt = 0
                               THEN CountSessions(sessionCount, session, in.send)
                               ELSE sessionCount
            /\ pc' = LoopAfterScan(PerformScan(in))
            /\ IF Raises(PerformScan(in))
               THEN UNCHANGED <<schedVars, markCalls, lastOp, opTime>>
               ELSE /\ MarkScanCompleted(now + in.d)
                    /\ markCalls' = markCalls + 1
                    /\ lastOp' = "mark"
                    /\ opTime' = now + in.d
       ELSE /\ in = NoScanInput
            /\ schedDue' = "notdue"
            /\ pc' = "sleep"
            /\ UNCHANGED <<now, schedVars, schedScan, scan_data, markCalls,
                           lastOp, opTime, session, sessionCount>>
    /\ UNCHANGED <<configVars, old_interval, repeatGap, task_info, forcedScan,
                   cfgApplied, mainVars, clientVars, analyzerVars>>

StartIteration ==
    /\ pc' = "check"
    /\ task_info' = NoResult
    /\ forcedScan' = "none"
    /\ schedScan' = "none"
    /\ markCalls' = 0
    /\ schedDue' = "unknown"
    /\ cfgApplied' = FALSE

\* await asyncio.sleep(self.config.check_interval)
Sleep ==
    /\ pc = "sleep"
    /\ now + check_interval <= MaxTime
    /\ now' = now + check_interval
    /\ step' = "sleep"
    /\ StartIteration
    /\ UNCHANGED <<schedVars, configVars, scan_data, lastOp, schedHistory,
                   session, sessionCount, mainVars, clientVars,
                   analyzerVars>>

\* except Exception: await asyncio.sleep(60)
Cooldown ==
    /\ pc = "cooldown"
    /\ now + CooldownSeconds <= MaxTime
    /\ now' = now + CooldownSeconds
    /\ step' = "cooldown"
    /\ StartIteration
    /\ UNCHANGED <<schedVars, configVars, scan_data, lastOp, schedHistory,
                   session, sessionCount, mainVars, clientVars,
                   analyzerVars>>

\* except KeyboardInterrupt: break
KeyboardInterrupt ==
    /\ pc \in {"check", "decide", "sleep", "cooldown"}
    /\ pc' = "stopped"
    /\ step' = "interrupt"
    /\ exit_status' = 0
    /\ UNCHANGED <<now, schedVars, configVars, scan_data, lastOp,
                   schedHistory, iterVars, session, sessionCount, singleScan,
                   clientVars, analyzerVars>>

\* main() with --scan or without argument: run_single_scan(), then the
\* handlers of the module's last lines; an exception gives sys.exit(1)
RunSingleScan(in) ==
    /\ pc = "single"
    /\ now + in.d <= MaxTime
    /\ now' = now + in.d
    /\ singleScan' = PerformScan(in)
    /\ scan_data' = ScanEnvelope(in)
    /\ session' = IF in.failAt = 0
                  THEN GetSession(session, in.send) ELSE session
    /\ sessionCount' = IF in.failAt = 0
                       THEN CountSessions(sessionCount, session, in.send)
                       ELSE sessionCount
    /\ exit_status' = IF Raises(PerformScan(in)) THEN 1 ELSE 0
    /\ pc' = "exited"
    /\ step' = "single_scan"
    /\ UNCHANGED <<schedVars, configVars, lastOp, schedHistory, iterVars,
                   clientVars, analyzerVars>>

Next ==
    \/ \E o \in TaskOutcomes, in \in ScanInputs : CheckForTasks(o, in)
    \/ \E in \in ScanInputs : ScheduledScan(in)
    \/ Sleep
    \/ Cooldown
    \/ KeyboardInterrupt
    \/ \E in \in ScanInputs : RunSingleScan(in)

Spec == Init /\ [][Next]_vars

-----------------------------------------------------------------------------
(* The remote client driven through its public methods                     *)

nonClientVars == <<now, scan_interval_minutes, check_interval, saved_config,
                   last_scan_time, next_scan_time, pc, scan_data, lastOp,
                   opTime, old_interval, repeatGap, task_info, forcedScan,
                   schedScan, markCalls, schedDue, cfgApplied, exit_status,
                   singleScan, analyzerVars>>

ClientStatuses == {200, 201, 401, 404, 500}

\* what may happen to one request of the client
ClientOutcomes ==
    {TransportFailure, TimeoutFailure, UnexpectedFailure}
        \cup {HttpError(st) : st \in ClientStatuses \ {200}}
        \cup {HttpAnswer(200, "text", "absent", "absent", NoUpdates, FALSE),
              HttpAnswer(200, "json_other", "absent", "absent", NoUpdates, FALSE),
              HttpAnswer(200, "json_object", "absent", "absent", NoUpdates, FALSE),
              HttpAnswer(200, "json_object", "false", "absent", NoUpdates, FALSE),
              HttpAnswer(200, "json_object", "true", "absent", NoUpdates, FALSE),
              HttpAnswer(200, "json_object", "true", "absent", NoUpdates, TRUE)}

RaisedResult == [shape |-> "raised"]

BoolResult(b) == [shape |-> "bool", value |-> b]

\* send_scan_data, check_tasks, register_machine: response.get('success')
\* is evaluated for the log line, then the response is returned
ReturnResponse(r) == IF ClientRaises(r) THEN RaisedResult ELSE r

\* test_connection: the value returned for the response r
TestConnection(r) ==
    IF ClientRaises(r) THEN FALSE
    ELSE Success(r) \/ r.status_code = 401

ClientRequest(call, o, result) ==
    /\ client_call' = call
    /\ client_answer' = o
    /\ client_result' = result
    /\ CountSessions(sessionCount, session, o).created <= MaxSessions
    /\ session' = GetSession(session, o)
    /\ sessionCount' = CountSessions(sessionCount, session, o)
    /\ UNCHANGED nonClientVars

ClientMakeRequest(o) ==
    /\ ClientRequest("_make_request", o, MakeRequest(o))
    /\ step' = "_make_request"

ClientSendScanData(o) ==
    /\ ClientRequest("send_scan_data", o, ReturnResponse(MakeRequest(o)))
    /\ step' = "send_scan_data"

ClientCheckTasks(o) ==
    /\ ClientRequest("check_tasks", o, ReturnResponse(MakeRequest(o)))
    /\ step' = "check_tasks"

ClientRegisterMachine(o) ==
    /\ ClientRequest("register_machine", o, ReturnResponse(MakeRequest(o)))
    /\ step' = "register_machine"

ClientTestConnection(o) ==
    /\ ClientRequest("test_connection", o,
                     BoolResult(TestConnection(MakeRequest(o))))
    /\ step' = "test_connection"

\* close()
ClientClose ==
    /\ session' = IF session = "open" THEN "closed" ELSE session
    /\ sessionCount' = IF session = "open"
                       THEN [sessionCount EXCEPT !.open = @ - 1]
                       ELSE sessionCount
    /\ client_call' = "close"
    /\ client_result' = NoResult
    /\ step' = "close"
    /\ UNCHANGED <<client_answer, nonClientVars>>

ClientNext ==
    \/ \E o \in ClientOutcomes : ClientMakeRequest(o)
    \/ \E o \in ClientOutcomes : ClientSendScanData(o)
    \/ \E o \in ClientOutcomes : ClientCheckTasks(o)
    \/ \E o \in ClientOutcomes : ClientRegisterMachine(o)
    \/ \E o \in ClientOutcomes : ClientTestConnection(o)
    \/ ClientClose

ClientSpec == Init /\ [][ClientNext]_vars

-----------------------------------------------------------------------------
(* Properties of the scheduler                                             *)

\* C1: after mark_scan_completed() at time t with interval I, and no other
\* scheduler operation or interval change since, should_scan() is false at
\* every time in [t, t+I) and true at t+I and at every later time.
C1_DueExactlyAfterInterval ==
    lastOp = "mark" =>
        /\ now >= last_scan_time
        /\ ShouldScan <=> (now >= last_scan_time + Minutes(scan_interval_minutes))

C1_Witness ==
    /\ lastOp = "mark"
    /\ now = last_scan_time + Minutes(scan_interval_minutes)
    /\ ShouldScan

\* C2 as stated: in every state reachable by mark_scan_completed,
\* force_next_scan and update_interval calls, whenever last_scan_time is
\* set, next_scan_time = last_scan_time + interval.
C2_NextIsLastPlusInterval ==
    last_scan_time # None =>
        next_scan_time = last_scan_time + Minutes(scan_interval_minutes)

\* C2 amended: the equation holds whenever last_scan_time is set and
\* force_next_scan is not the latest of the three calls; after
\* force_next_scan, next_scan_time is the time of that call.
C2_NextIsLastPlusIntervalUnlessForced ==
    /\ (last_scan_time # None /\ lastOp # "force") =>
            next_scan_time = last_scan_time + Minutes(scan_interval_minutes)
    /\ lastOp = "force" => next_scan_time = opTime

C2_Witness ==
    /\ step = "update"
    /\ last_scan_time # None
    /\ now > last_scan_time
    /\ old_interval # scan_interval_minutes

\* C3: force_next_scan() makes should_scan() true immediately afterwards
\* and leaves last_scan_time and the configured interval unchanged.
C3_ForceMakesDue ==
    [][step' = "force" =>
          /\ ShouldScanAt(next_scan_time', now')
          /\ last_scan_time' = last_scan_time
          /\ scan_interval_minutes' = scan_interval_minutes]_vars

C3_Witness ==
    /\ step = "force"
    /\ last_scan_time # None
    /\ now < last_scan_time + Minutes(scan_interval_minutes)
    /\ ShouldScan

\* C4: update_interval(n) recomputes next_scan_time as the existing
\* last_scan_time + n without changing last_scan_time; shrinking from 60
\* minutes to 1 minute when the last scan completed 2 minutes ago makes
\* should_scan() true immediately; growing the interval pushes the next
\* scan later.
C4_UpdateRecomputesFromLast ==
    [][(step' = "update" /\ last_scan_time # None) =>
          /\ last_scan_time' = last_scan_time
          /\ next_scan_time' = last_scan_time + Minutes(scan_interval_minutes')
          /\ (/\ scan_interval_minutes = 60
              /\ scan_interval_minutes' = 1
              /\ now - last_scan_time >= Minutes(2))
                => ShouldScanAt(next_scan_time', now')
          /\ (/\ scan_interval_minutes' > scan_interval_minutes
              /\ next_scan_time = last_scan_time + Minutes(scan_interval_minutes))
                => next_scan_time' > next_scan_time]_vars

C4_Witness ==
    /\ step = "update"
    /\ last_scan_time # None
    /\ old_interval = 60
    /\ scan_interval_minutes = 1
    /\ now - last_scan_time = Minutes(2)
    /\ ShouldScan

\* C5 as stated: update_interval(n) called twice in a row, possibly at
\* different times, from any state (also when no scan has completed yet)
\* leaves last_scan_time, next_scan_time and the interval as the first call
\* left them.
C5_UpdateIdempotent ==
    [][(step' = "update" /\ repeatGap' # None) =>
          /\ last_scan_time' = last_scan_time
          /\ next_scan_time' = next_scan_time
          /\ scan_interval_minutes' = scan_interval_minutes]_vars

\* C5 amended: the second call leaves last_scan_time and the interval as
\* the first call left them, and next_scan_time too when a scan has
\* completed; when no scan has completed yet the second call sets
\* next_scan_time to the time of the second call, so the scan stays due.
C5_UpdateIdempotentOnceScanned ==
    [][(step' = "update" /\ repeatGap' # None) =>
          /\ last_scan_time' = last_scan_time
          /\ scan_interval_minutes' = scan_interval_minutes
          /\ last_scan_time # None => next_scan_time' = next_scan_time
          /\ last_scan_time = None =>
                (next_scan_time' = now' /\ ShouldScanAt(next_scan_time', now'))]_vars

C5_Witness ==
    /\ step = "update"
    /\ repeatGap # None
    /\ repeatGap > 0
    /\ last_scan_time # None

-----------------------------------------------------------------------------
(* Properties of the orchestrator loop                                     *)

\* calls of send_scan_data in this iteration
SendCalls ==
    (IF Sent(forcedScan) THEN 1 ELSE 0) + (IF Sent(schedScan) THEN 1 ELSE 0)

ModuleRaised ==
    forcedScan = "module_raised" \/ schedScan = "module_raised"

\* C6: when every collection module succeeds but send_scan_data returns a
\* failure result, mark_scan_completed is not called in that iteration and
\* should_scan() is still true at the next loop iteration.
C6_SendFailureLeavesScanDue ==
    schedScan = "send_fail" =>
        /\ markCalls = 0
        /\ pc = "sleep" => ShouldScan

\* C7: in a loop iteration in which a collection module's scan() raises,
\* send_scan_data and mark_scan_completed are called zero times.
C7_ModuleErrorSendsAndMarksNothing ==
    ModuleRaised => (SendCalls = 0 /\ markCalls = 0)

\* C8: mark_scan_completed is called once for a scan whose collection and
\* transmission succeed, also when a remote directive forced the scan: a
\* successfully sent directive-forced scan updates last_scan_time.
C8_ForcedScanIsMarked ==
    (pc = "decide" /\ forcedScan = "send_ok") =>
        (markCalls = 1 /\ last_scan_time = now)

\* C9: when check_tasks returns a directive with should_scan = true, a scan
\* is performed in that same loop iteration even if the scheduler's
\* should_scan() is false.
C9_DirectiveForcesScan ==
    (/\ pc # "check"
     /\ task_info.shape = "dict"
     /\ task_info.should_scan = "true") => forcedScan # "none"

C9_Witness ==
    /\ pc = "sleep"
    /\ task_info.shape = "dict"
    /\ task_info.should_scan = "true"
    /\ schedDue = "notdue"
    /\ forcedScan = "send_ok"

CheckFailed ==
    /\ task_info.shape = "dict"
    /\ task_info.error \in {"connection", "unexpected", "http"}

\* C10: when check_tasks returns a transport or HTTP failure result, no
\* forced scan and no config update happen, the handler goes on to the scan
\* decision without a cooldown, and a scan the scheduler reports due is
\* still performed in that iteration.
C10_FailedCheckIsNoDirective ==
    /\ [](CheckFailed =>
            /\ forcedScan = "none"
            /\ ~cfgApplied
            /\ pc = "cooldown" => Raises(schedScan)
            /\ schedDue = "due" => schedScan # "none")
    /\ [][(step' = "check_for_tasks" /\ CheckFailed') =>
            /\ pc' = "decide"
            /\ now' = now
            /\ UNCHANGED <<scan_interval_minutes, check_interval, saved_config,
                           last_scan_time, next_scan_time>>]_vars

C10_Witness ==
    /\ CheckFailed
    /\ task_info.status_code = 500
    /\ pc = "sleep"
    /\ schedScan = "send_ok"
    /\ markCalls = 1

\* C11: every directive that contains config_updates is applied to the
\* configuration and persisted before the scan decision of that iteration,
\* also when the directive has should_scan = true and the forced scan fails.
C11_ConfigUpdatesAppliedBeforeDecision ==
    (/\ pc = "decide"
     /\ task_info.shape = "dict"
     /\ task_info.config_updates.present
     /\ ~task_info.config_updates.null) =>
        LET cu == task_info.config_updates
        IN  /\ cfgApplied
            /\ cu.scan_interval_minutes # None =>
                  scan_interval_minutes = cu.scan_interval_minutes
            /\ cu.check_interval # None =>
                  check_interval = cu.check_interval
            /\ saved_config = [scan_interval_minutes |-> scan_interval_minutes,
                               check_interval |-> check_interval]

\* a module failure, a transport failure of the task check or an exception
\* of send_scan_data happened in this iteration
FailureInIteration ==
    \/ ModuleRaised
    \/ forcedScan = "send_raised"
    \/ schedScan = "send_raised"
    \/ (task_info.shape = "dict" /\ task_info.error = "connection")

C13_CooldownLongerThanCheckInterval ==
    pc = "cooldown" => CooldownSeconds > check_interval

\* C14: whenever the orchestrator has exited (the continuous loop was
\* cancelled, or a single-shot run ended), no session that was opened is
\* still open.
C14_SessionReleasedOnExit ==
    pc \in {"stopped", "exited"} => session # "open"

\* C15: in single-shot mode every failed scan attempt exits with a non-zero
\* status, both when a collection module raises and when send_scan_data
\* returns a failure result.
C15_FailedSingleScanExitsNonZero ==
    (pc = "exited" /\ singleScan \in {"module_raised", "send_fail", "send_raised"})
        => (exit_status # None /\ exit_status # 0)

AllScanners == {Scanners[i] : i \in 1..Len(Scanners)}

\* C16 as stated: single-shot mode calls check_tasks once, collects the
\* enabled modules once and calls send_scan_data at most once (exactly once
\* when every module succeeds), then terminates.
C16_SingleShotChecksCollectsSends ==
    pc = "exited" =>
        /\ task_info # NoResult
        /\ singleScan # "none"
        /\ singleScan # "module_raised" => Sent(singleScan)

\* C16 amended: single-shot mode never calls check_tasks; it collects the
\* enabled modules once and calls send_scan_data at most once, exactly once
\* and with every module's data when every module succeeds and not at all
\* when a module raises, then terminates.
C16_SingleShotCollectsSends ==
    pc = "exited" =>
        /\ step = "single_scan"
        /\ task_info = NoResult
        /\ forcedScan = "none" /\ schedScan = "none"
        /\ singleScan \in {"module_raised", "send_ok", "send_fail", "send_raised"}
        /\ singleScan = "module_raised" => scan_data.modules # AllScanners
        /\ singleScan # "module_raised" =>
              (scan_data.modules = AllScanners /\ Sent(singleScan))
        /\ exit_status \in {0, 1}
        /\ ~ENABLED Next

C16_Witness ==
    /\ pc = "exited"
    /\ singleScan = "send_ok"
    /\ scan_data.modules = AllScanners
    /\ exit_status = 0

-----------------------------------------------------------------------------
(* Properties of the remote client                                         *)

RequestCalls == {"send_scan_data", "check_tasks", "register_machine"}

\* C17: _make_request never raises, whatever the outcome of the call, so
\* send_scan_data, check_tasks and register_machine never raise.
C17_ClientNeverRaises ==
    /\ client_call = "_make_request" => client_result.shape \in {"dict", "other"}
    /\ client_call \in RequestCalls => client_result.shape # "raised"

\* C18: whenever the server answers with a success status, the result of
\* _make_request is tagged as success, for a text body and for a JSON object
\* of any shape, so that send_scan_data reports the scan as sent.
C18_SuccessStatusIsTaggedSuccess ==
    (/\ client_call \in {"_make_request", "send_scan_data"}
     /\ client_answer.kind = "http"
     /\ client_answer.status = 200
     /\ client_answer.format \in {"text", "json_object"}) =>
        (client_result.shape = "dict" /\ Success(client_result))

\* C19: test_connection() returns true exactly when the task check is
\* answered with a success status or with 401; it returns false for every
\* other HTTP status and for every transport failure.
C19_TestConnectionIffAnswered ==
    client_call = "test_connection" =>
        /\ client_result.shape = "bool"
        /\ client_result.value <=>
              (client_answer.kind = "http" /\ client_answer.status \in {200, 401})

\* C20: a non-success HTTP status yields a failure that carries the status
\* code and the response body, so 401 and 500 differ; every transport-level
\* failure yields a failure without status code, which no HTTP-status
\* failure is.
C20_FailuresAreClassified ==
    client_call = "_make_request" =>
        /\ (client_answer.kind = "http" /\ client_answer.status # 200) =>
              /\ client_result.shape = "dict"
              /\ client_result.success = "false"
              /\ client_result.status_code = client_answer.status
              /\ client_result.body_in_error
        /\ client_answer.kind \in {"transport", "timeout", "unexpected"} =>
              /\ client_result.shape = "dict"
              /\ client_result.success = "false"
              /\ client_result.status_code = None
              /\ ~client_result.body_in_error

C20_Witness ==
    /\ client_call = "_make_request"
    /\ client_answer.kind = "http"
    /\ client_answer.status = 401
    /\ client_result.status_code = 401

ClientMethods == RequestCalls \cup {"_make_request", "test_connection"}

\* C21: over any sequence of requests and close() calls on one APIClient, no
\* session exists before the first request, at most one open session exists
\* at any time, a request made while the session is open reuses it, a request
\* made after close() (or before any session) creates a new one unless the
\* creation itself raises, and close() with no session or repeated is a
\* no-op that cannot fail.
C21_OneReusableSession ==
    /\ [](/\ sessionCount.open <= 1
          /\ sessionCount.open = 1 <=> session = "open"
          /\ sessionCount.created = 0 <=> session = "none"
          /\ client_call = "none" => session = "none"
          /\ ENABLED ClientClose)
    /\ [][step' \in ClientMethods =>
            /\ session = "open" =>
                  (session' = "open" /\ sessionCount' = sessionCount)
            /\ (session # "open" /\ client_answer'.kind # "unexpected") =>
                  /\ session' = "open"
                  /\ sessionCount'.created = sessionCount.created + 1
                  /\ sessionCount'.open = 1]_vars
    /\ [][step' = "close" =>
            /\ sessionCount'.created = sessionCount.created
            /\ session = "open" =>
                  (session' = "closed" /\ sessionCount'.open = 0)
            /\ session # "open" =>
                  (session' = session /\ sessionCount' = sessionCount)]_vars

C21_Witness ==
    /\ session = "open"
    /\ client_call \in ClientMethods
    /\ sessionCount.created = 2
    /\ sessionCount.open = 1

\* C22: the scan envelope is immutable once handed to the remote client:
\* after send_scan_data the envelope object built by perform_scan has
\* exactly the keys (and values) it was built with.
C22_EnvelopeUnchangedBySend ==
    (Sent(forcedScan) \/ Sent(schedScan) \/ Sent(singleScan)) =>
        scan_data.keys = EnvelopeKeys

-----------------------------------------------------------------------------
(* ThreatAnalyzer (api-server/app/services/threat_analyzer.py)             *)
(*                                                                         *)
(* A str is a sequence of one-character strings, a list is a sequence and  *)
(* a dict is a function whose domain is its set of keys.                   *)

UpperCase == <<"A", "B", "C", "D", "E", "F", "G", "H", "I", "J", "K", "L", "M",
              "N", "O", "P", "Q", "R", "S", "T", "U", "V", "W", "X", "Y", "Z">>

LowerCase == <<"a", "b", "c", "d", "e", "f", "g", "h", "i", "j", "k", "l", "m",
              "n", "o", "p", "q", "r", "s", "t", "u", "v", "w", "x", "y", "z">>

LowerChar(c) ==
    IF \E i \in 1..Len(UpperCase) : UpperCase[i] = c
    THEN LowerCase[CHOOSE i \in 1..Len(UpperCase) : UpperCase[i] = c]
    ELSE c

\* str.lower()
Lower(str) == [i \in 1..Len(str) |-> LowerChar(str[i])]

\* sub in str
Contains(sub, str) ==
    \E i \in 0..(Len(str) - Len(sub)) :
        \A j \in 1..Len(sub) : str[i + j] = sub[j]

\* d.get(key, default)
Get(d, key, default) == IF key \in DOMAIN d THEN d[key] ELSE default

\* the elements of a list
Range(list) == {list[i] : i \in 1..Len(list)}

\* threats.extend / threats.append over a list of lists, in order
RECURSIVE Extend(_)
Extend(lists) ==
    IF lists = <<>> THEN <<>> ELSE Head(lists) \o Extend(Tail(lists))

suspicious_ports == <<1337, 31337, 4444, 5555, 6666, 7777, 8888, 9999>>

malicious_processes ==
    <<<<"n", "e", "t", "c", "a", "t">>,
      <<"n", "c">>,
      <<"m", "i", "m", "i", "k", "a", "t", "z">>,
      <<"p", "s", "e", "x", "e", "c">>,
      <<"w", "c", "e">>,
      <<"f", "g", "d", "u", "m", "p">>,
      <<"p", "w", "d", "u", "m", "p">>,
      <<"g", "s", "e", "c", "d", "u", "m", "p">>,
      <<"c", "a", "c", "h", "e", "d", "u", "m", "p">>,
      <<"l", "s", "a", "d", "u", "m", "p">>>>

dangerous_extensions ==
    <<<<".", "e", "x", "e", ".", "p", "d", "f">>,
      <<".", "p", "d", "f", ".", "e", "x", "e">>,
      <<".", "d", "o", "c", ".", "e", "x", "e">>,
      <<".", "j", "p", "g", ".", "e", "x", "e">>,
      <<".", "p", "n", "g", ".", "e", "x", "e">>,
      <<".", "t", "x", "t", ".", "e", "x", "e">>,
      <<".", "s", "c", "r">>,
      <<".", "p", "i", "f">>,
      <<".", "b", "a", "t", ".", "e", "x", "e">>>>

suspicious_paths ==
    <<<<"t", "e", "m", "p">>,
      <<"t", "m", "p">>,
      <<"a", "p", "p", "d", "a", "t", "a", "\\", "l", "o", "c", "a", "l", "\\", "t", "e", "m", "p">>,
      <<"p", "r", "o", "g", "r", "a", "m", "d", "a", "t", "a">>>>

\* Threat(machine_id=..., threat_type=..., description=..., evidence=...,
\* detected_at=datetime.utcnow()); the description is the f-string's
\* constant text followed by the values formatted into it
Threat(m, type, description, evidence, t) ==
    [machine_id |-> m, threat_type |-> type, description |-> description,
     evidence |-> evidence, detected_at |-> t]

\* any(malware in name for malware in self.malicious_processes)
IsMalicious(name) ==
    \E i \in 1..Len(malicious_processes) : Contains(malicious_processes[i], name)

\* mutant: the process rule is an elif of the port rule
PortThreatsElif(m, port_info, t) ==
    LET port == Get(port_info, "port", None)
        process_name == Lower(Get(port_info, "process_name", <<>>))
    IN  IF port \in Range(suspicious_ports)
        THEN <<Threat(m, "PUERTO_SOSPECHOSO",
                      <<"Puerto sospechoso", port, process_name>>, port_info, t)>>
        ELSE IF IsMalicious(process_name)
        THEN <<Threat(m, "PROCESO_MALICIOSO",
                      <<"Proceso potencialmente malicioso", process_name>>,
                      port_info, t)>>
        ELSE <<>>

\* the body of the loop of _analyze_open_ports for one port_info
PortThreats(m, port_info, t) ==
    LET port == Get(port_info, "port", None)
        process_name == Lower(Get(port_info, "process_name", <<>>))
    IN  (IF port \in Range(suspicious_ports)
         THEN <<Threat(m, "PUERTO_SOSPECHOSO",
                       <<"Puerto sospechoso", port, process_name>>, port_info, t)>>
         ELSE <<>>)
        \o
        (IF IsMalicious(process_name)
         THEN <<Threat(m, "PROCESO_MALICIOSO",
                       <<"Proceso potencialmente malicioso", process_name>>,
                       port_info, t)>>
         ELSE <<>>)

\* _analyze_open_ports
AnalyzeOpenPorts(m, open_ports, t) ==
    Extend([i \in 1..Len(open_ports) |-> PortThreats(m, open_ports[i], t)])

\* mutant: three administrators are already too many
ExcessiveAdminsFromThree(admin_count) == admin_count >= 3

\* if admin_count > 3
ExcessiveAdmins(admin_count) == admin_count > 3

\* _analyze_user_accounts
AnalyzeUserAccounts(m, user_accounts, t) ==
    LET admin_count ==
            Len(SelectSeq(user_accounts, LAMBDA user : Get(user, "is_admin", FALSE)))
        passwordless ==
            SelectSeq(user_accounts,
                      LAMBDA user : ~Get(user, "password_required", TRUE))
    IN  (IF ExcessiveAdmins(admin_count)
         THEN <<Threat(m, "EXCESO_ADMINISTRADORES",
                       <<"Demasiadas cuentas de administrador", admin_count>>,
                       [admin_count |-> admin_count, users |-> user_accounts], t)>>
         ELSE <<>>)
        \o
        [i \in 1..Len(passwordless) |->
            Threat(m, "CUENTA_SIN_PASSWORD",
                   <<"Cuenta sin contraseña", Get(passwordless[i], "username", None)>>,
                   passwordless[i], t)]

\* _analyze_hosts_file
AnalyzeHostsFile(m, hosts_data, t) ==
    LET suspicious_entries == Get(hosts_data, "suspicious_entries", <<>>)
    IN  [i \in 1..Len(suspicious_entries) |->
            Threat(m, "HOSTS_MODIFICADO",
                   <<"Entrada sospechosa en archivo hosts", suspicious_entries[i]>>,
                   hosts_data, t)]

\* the event identifier of a failed logon, and the number of failed logons
\* that is still tolerated
FailedLogonEventId == 4625
FailedLoginThreshold == 10
EvidenceEventLimit == 5

\* mutant: the evidence holds every matching event
EvidenceEventsAll(failed_logins) == failed_logins

\* failed_logins[:5]
EvidenceEvents(failed_logins) ==
    SubSeq(failed_logins, 1,
           IF Len(failed_logins) < EvidenceEventLimit
           THEN Len(failed_logins) ELSE EvidenceEventLimit)

\* [event for event in security_events if event.get("event_id") == 4625]
FailedLogins(security_events) ==
    SelectSeq(security_events,
              LAMBDA event : Get(event, "event_id", None) = FailedLogonEventId)

\* _analyze_security_events
AnalyzeSecurityEvents(m, security_events, t) ==
    LET failed_logins == FailedLogins(security_events)
    IN  IF Len(failed_logins) > FailedLoginThreshold
        THEN <<Threat(m, "MULTIPLES_INTENTOS_LOGIN",
                      <<"Múltiples intentos de login fallidos", Len(failed_logins)>>,
                      [failed_login_count |-> Len(failed_logins),
                       events |-> EvidenceEvents(failed_logins)], t)>>
        ELSE <<>>

\* any(ext in file_name for ext in self.dangerous_extensions)
IsDangerous(file_name) ==
    \E i \in 1..Len(dangerous_extensions) :
        Contains(dangerous_extensions[i], file_name)

\* _analyze_recent_files
AnalyzeRecentFiles(m, recent_files, t) ==
    LET hits == SelectSeq(recent_files,
                    LAMBDA file_info :
                        IsDangerous(Lower(Get(file_info, "name", <<>>))))
    IN  [i \in 1..Len(hits) |->
            Threat(m, "ARCHIVO_SOSPECHOSO",
                   <<"Archivo con extensión sospechosa",
                     Lower(Get(hits[i], "name", <<>>))>>,
                   hits[i], t)]

\* _analyze_scheduled_tasks
AnalyzeScheduledTasks(m, scheduled_tasks, t) ==
    LET hits == SelectSeq(scheduled_tasks,
                    LAMBDA task :
                        IsMalicious(Lower(Get(task, "command", <<>>))))
    IN  [i \in 1..Len(hits) |->
            Threat(m, "TAREA_MALICIOSA",
                   <<"Tarea programada sospechosa",
                     Lower(Get(hits[i], "name", <<>>))>>,
                   hits[i], t)]

\* mutant: one record for the PATH, for the first fragment found
AnalyzeEnvironmentVariablesFirstOnly(m, env_vars, t) ==
    LET path_var == Get(env_vars, "PATH", <<>>)
        found == SelectSeq(suspicious_paths,
                     LAMBDA suspicious_path :
                         Contains(suspicious_path, Lower(path_var)))
    IN  IF found = <<>> THEN <<>>
        ELSE <<Threat(m, "PATH_MODIFICADO",
                      <<"PATH contiene ruta sospechosa", found[1]>>,
                      [path |-> path_var, suspicious_path |-> found[1]], t)>>

\* _analyze_environment_variables
AnalyzeEnvironmentVariables(m, env_vars, t) ==
    LET path_var == Get(env_vars, "PATH", <<>>)
        found == SelectSeq(suspicious_paths,
                     LAMBDA suspicious_path :
                         Contains(suspicious_path, Lower(path_var)))
    IN  [i \in 1..Len(found) |->
            Threat(m, "PATH_MODIFICADO",
                   <<"PATH contiene ruta sospechosa", found[i]>>,
                   [path |-> path_var, suspicious_path |-> found[i]], t)]

\* analyze_scan_data(machine_id, scan_data) called at time t
AnalyzeScanData(m, data, t) ==
    LET security_scan == Get(data, "security_scan", EmptyDict)
        activity_scan == Get(data, "activity_scan", EmptyDict)
        system_health == Get(data, "system_health", EmptyDict)
    IN  AnalyzeOpenPorts(m, Get(security_scan, "open_ports", <<>>), t)
        \o AnalyzeUserAccounts(m, Get(security_scan, "user_accounts", <<>>), t)
        \o AnalyzeHostsFile(m, Get(security_scan, "hosts_file", EmptyDict), t)
        \o AnalyzeSecurityEvents(m, Get(security_scan, "security_events", <<>>), t)
        \o AnalyzeRecentFiles(m, Get(activity_scan, "recent_files", <<>>), t)
        \o AnalyzeScheduledTasks(m, Get(system_health, "scheduled_tasks", <<>>), t)
        \o AnalyzeEnvironmentVariables(
               m, Get(system_health, "environment_variables", EmptyDict), t)

\* a call analyzer.analyze_scan_data(*args) at time t: the method has two
\* required positional parameters, any other number of arguments is a
\* TypeError
CallAnalyzeScanData(args, t) ==
    IF Len(args) # 2
    THEN [outcome |-> "raised", threats |-> <<>>]
    ELSE [outcome |-> "returned",
          threats |-> AnalyzeScanData(args[1], args[2], t)]

-----------------------------------------------------------------------------
(* Payloads given to the analyzer                                          *)

MaxPorts == 2
MaxAccounts == 5
MaxEvents == 12

\* the time up to which calls of the analyzer are followed
MaxAnalysisTime == 120

MachineIds == {"m1", "m2"}

\* "svc.exe", "NetCat.exe", "nc.exe", "netcat.exe"
SvcExe == <<"s", "v", "c", ".", "e", "x", "e">>
NetCatExe == <<"N", "e", "t", "C", "a", "t", ".", "e", "x", "e">>
NcExe == <<"n", "c", ".", "e", "x", "e">>
NetcatExeLower == <<"n", "e", "t", "c", "a", "t", ".", "e", "x", "e">>

\* entries of open_ports: a suspicious port, a malicious process, both,
\* neither, and entries in which a field is missing
PortEntries ==
    {[port |-> 31337, process_name |-> SvcExe],
     [port |-> 8080, process_name |-> NetCatExe],
     [port |-> 4444, process_name |-> NcExe],
     [port |-> 443, process_name |-> SvcExe],
     [port |-> 31337],
     [process_name |-> NetcatExeLower]}

RECURSIVE ListsUpTo(_, _)
ListsUpTo(S, n) ==
    IF n = 0 THEN {<<>>}
    ELSE LET shorter == ListsUpTo(S, n - 1)
         IN  shorter \cup {Append(l, x) : l \in shorter, x \in S}

OpenPortLists == ListsUpTo(PortEntries, MaxPorts)

\* entries of user_accounts
AdminAccount == [username |-> "admin", is_admin |-> TRUE, password_required |-> TRUE]
GuestAccount == [username |-> "guest", is_admin |-> FALSE, password_required |-> FALSE]
RootAccount == [username |-> "root", is_admin |-> TRUE, password_required |-> FALSE]
BareAccount == [username |-> "user"]

Repeat(x, n) == [i \in 1..n |-> x]

\* account lists with a guests, b administrators, c accounts without flags
\* and d passwordless administrators, in this order
UserAccountLists ==
    {Repeat(GuestAccount, q[1]) \o Repeat(AdminAccount, q[2])
        \o Repeat(BareAccount, q[3]) \o Repeat(RootAccount, q[4]) :
        q \in {r \in [1..4 -> 0..MaxAccounts] :
                  r[1] + r[2] + r[3] + r[4] <= MaxAccounts}}

\* security events 1..n in payload order: a failed logon unless the position
\* is one of other (another event) or of bare (an event without event_id)
SecurityEventList(n, other, bare) ==
    [i \in 1..n |->
        IF i \in bare THEN [record_id |-> i]
        ELSE [record_id |-> i,
              event_id |-> IF i \in other THEN 4624 ELSE FailedLogonEventId]]

SecurityEventLists ==
    {SecurityEventList(n, q[1], q[2]) :
        n \in 0..MaxEvents, q \in {<<{}, {}>>, <<{}, {2}>>, <<{3}, {2}>>}}

\* values of PATH: "C:\Windows", "C:\Temp", "D:\tmp", "C:\Temp;D:\tmp",
\* "C:\AppData\Local\Temp", "C:\ProgramData\bin" and the empty string
PathWindows == <<"C", ":", "\\", "W", "i", "n", "d", "o", "w", "s">>
PathTemp == <<"C", ":", "\\", "T", "e", "m", "p">>
PathTmp == <<"D", ":", "\\", "t", "m", "p">>
PathTempAndTmp == <<"C", ":", "\\", "T", "e", "m", "p", ";", "D", ":", "\\", "t", "m", "p">>
PathAppDataLocalTemp ==
    <<"C", ":", "\\", "A", "p", "p", "D", "a", "t", "a", "\\", "L", "o", "c", "a", "l", "\\", "T", "e", "m", "p">>
PathProgramData ==
    <<"C", ":", "\\", "P", "r", "o", "g", "r", "a", "m", "D", "a", "t", "a", "\\", "b", "i", "n">>

PathValues ==
    {<<>>, PathWindows, PathTemp, PathTmp, PathTempAndTmp,
     PathAppDataLocalTemp, PathProgramData}

\* "Invoice.PDF.exe", "notes.txt", "nc.exe -l", "backup.cmd"
InvoicePdfExe == <<"I", "n", "v", "o", "i", "c", "e", ".", "P", "D", "F", ".", "e", "x", "e">>
NotesTxt == <<"n", "o", "t", "e", "s", ".", "t", "x", "t">>
NcListen == <<"n", "c", ".", "e", "x", "e", " ", "-", "l">>
BackupCmd == <<"b", "a", "c", "k", "u", "p", ".", "c", "m", "d">>

\* a payload in which every rule fires
FullPayload ==
    [security_scan |->
        [open_ports |-> <<[port |-> 4444, process_name |-> NcExe]>>,
         user_accounts |-> <<GuestAccount>>,
         hosts_file |-> [suspicious_entries |-> <<"10.0.0.1 bank.example">>],
         security_events |-> SecurityEventList(FailedLoginThreshold + 1, {}, {})],
     activity_scan |->
        [recent_files |-> <<[name |-> InvoicePdfExe], [name |-> NotesTxt]>>],
     system_health |->
        [scheduled_tasks |-> <<[name |-> SvcExe, command |-> NcListen],
                               [name |-> SvcExe, command |-> BackupCmd]>>,
         environment_variables |-> [PATH |-> PathTemp]]]

SubSections ==
    {"open_ports", "user_accounts", "hosts_file", "security_events",
     "recent_files", "scheduled_tasks", "environment_variables"}

\* the dict d without the keys outside keep
Restrict(d, keep) == [k \in DOMAIN d \cap keep |-> d[k]]

\* FullPayload with only the sub-sections of keep; a section left without
\* sub-section is missing too
PartialPayload(keep) ==
    LET sections == {name \in DOMAIN FullPayload :
                        DOMAIN FullPayload[name] \cap keep # {}}
    IN  [name \in sections |-> Restrict(FullPayload[name], keep)]

PartialPayloads == {PartialPayload(keep) : keep \in SUBSET SubSections}

\* payloads whose entries lack fields
BarePayloads ==
    {[security_scan |-> EmptyDict, activity_scan |-> EmptyDict,
      system_health |-> EmptyDict],
     [security_scan |-> [hosts_file |-> EmptyDict]],
     [activity_scan |-> [recent_files |-> <<EmptyDict, [name |-> InvoicePdfExe]>>]],
     [system_health |-> [scheduled_tasks |-> <<[name |-> SvcExe], [command |-> NcListen]>>]],
     [system_health |-> [environment_variables |-> [HOME |-> PathTemp]]]}

Payloads ==
    {[security_scan |-> [open_ports |-> l]] : l \in OpenPortLists}
        \cup {[security_scan |-> [user_accounts |-> l]] : l \in UserAccountLists}
        \cup {[security_scan |-> [security_events |-> l]] : l \in SecurityEventLists}
        \cup {[system_health |-> [environment_variables |-> [PATH |-> v]]] :
                 v \in PathValues}
        \cup PartialPayloads
        \cup BarePayloads

-----------------------------------------------------------------------------
(* The analyzer called directly and through POST /scans                    *)

AnalyzerInit ==
    /\ now = 0
    /\ scan_interval_minutes = DefaultScanIntervalMinutes
    /\ check_interval = DefaultCheckInterval
    /\ saved_config = [scan_interval_minutes |-> scan_interval_minutes,
                       check_interval |-> check_interval]
    /\ last_scan_time = None
    /\ next_scan_time = CalculateNextScan(None, scan_interval_minutes, now)
    /\ pc = "check"
    /\ scan_data = [keys |-> {}, modules |-> {}]
    /\ step = "init"
    /\ lastOp = "init"
    /\ opTime = 0
    /\ old_interval = None
    /\ repeatGap = None
    /\ FreshIteration
    /\ session = "none"
    /\ sessionCount = NoSessions
    /\ exit_status = None
    /\ singleScan = "none"
    /\ client_call = "none"
    /\ client_answer = TransportFailure
    /\ client_result = NoResult
    /\ machine_id \in MachineIds
    /\ payload \in Payloads
    /\ analysis = NoAnalysis
    /\ prev_analysis = NoAnalysis

nonAnalyzerVars ==
    <<scan_interval_minutes, check_interval, saved_config, last_scan_time,
      next_scan_time, pc, scan_data, lastOp, opTime, old_interval, repeatGap,
      task_info, forcedScan, schedScan, markCalls, schedDue, cfgApplied,
      session, sessionCount, exit_status, singleScan, client_call,
      client_answer, client_result>>

AnalyzerTick(d) ==
    /\ now + d <= MaxAnalysisTime
    /\ now' = now + d
    /\ step' = "tick"
    /\ UNCHANGED <<nonAnalyzerVars, analyzerVars>>

\* analyzer.analyze_scan_data(machine_id, payload)
Analyze ==
    /\ LET r == CallAnalyzeScanData(<<machine_id, payload>>, now)
       IN  analysis' = [call |-> "analyze_scan_data", outcome |-> r.outcome,
                        threats |-> r.threats, at |-> now,
                        status |-> None, scan_stored |-> FALSE]
    /\ prev_analysis' = analysis
    /\ step' = "analyze_scan_data"
    /\ UNCHANGED <<now, nonAnalyzerVars, machine_id, payload>>

\* receive_scan_data for a request body that passed validation: the manager
\* is looked up, the scan is stored and committed, the analyzer is called
\* with the payload as its only argument; every exception, the 404 of the
\* unknown manager included, is answered with status 500.  Failures of the
\* database are left out.
ReceiveScanData(manager_known) ==
    /\ LET r == IF manager_known
                THEN CallAnalyzeScanData(<<payload>>, now)
                ELSE [outcome |-> "none", threats |-> <<>>]
       IN  analysis' = [call |-> "receive_scan_data", outcome |-> r.outcome,
                        threats |-> r.threats, at |-> now,
                        status |-> IF r.outcome = "returned" THEN 200 ELSE 500,
                        scan_stored |-> manager_known]
    /\ prev_analysis' = analysis
    /\ step' = "receive_scan_data"
    /\ UNCHANGED <<now, nonAnalyzerVars, machine_id, payload>>

AnalyzerNext ==
    \/ \E d \in TickSteps : AnalyzerTick(d)
    \/ Analyze
    \/ \E manager_known \in BOOLEAN : ReceiveScanData(manager_known)

AnalyzerSpec == AnalyzerInit /\ [][AnalyzerNext]_vars

-----------------------------------------------------------------------------
(* Properties of the analyzer                                              *)

\* C23: the analyzer is deterministic and stateless: two calls of
\* analyze_scan_data with the same machine_id and the same payload, made at
\* any two times, return identical sequences of threat records (same
\* length, same order, every field equal).
C23_SameInputSameRecords ==
    (/\ analysis.call = "analyze_scan_data"
     /\ prev_analysis.call = "analyze_scan_data") =>
        analysis.threats = prev_analysis.threats

\* the sub-section of the payload under analysis, or default when it or its
\* section is missing
SubSection(section, name, default) ==
    Get(Get(payload, section, EmptyDict), name, default)

\* the records of one type among the threats returned
RecordsOfType(type) ==
    SelectSeq(analysis.threats, LAMBDA record : record.threat_type = type)

\* C24: port rule.  The number of suspicious-port records equals the number
\* of open-port entries whose port is in the suspicious-port set, and the
\* number of malicious-process records equals the number of entries whose
\* process name contains, case-insensitively, a malicious-process name; the
\* two rules fire independently for the same entry.  Port 31337 owned by
\* svc.exe gives one suspicious-port record and no malicious-process
\* record; netcat.exe on a non-suspicious port gives the opposite.
C24_PortRule ==
    analysis.call = "analyze_scan_data" =>
        LET open_ports == SubSection("security_scan", "open_ports", <<>>)
            suspicious == Len(RecordsOfType("PUERTO_SOSPECHOSO"))
            malicious == Len(RecordsOfType("PROCESO_MALICIOSO"))
            HasSuspiciousPort(e) ==
                /\ "port" \in DOMAIN e
                /\ \E i \in 1..Len(suspicious_ports) : suspicious_ports[i] = e.port
            HasMaliciousName(e) ==
                /\ "process_name" \in DOMAIN e
                /\ \E i \in 1..Len(malicious_processes) :
                       Contains(malicious_processes[i], Lower(e.process_name))
        IN  /\ suspicious =
                  Cardinality({i \in 1..Len(open_ports) :
                                  HasSuspiciousPort(open_ports[i])})
            /\ malicious =
                  Cardinality({i \in 1..Len(open_ports) :
                                  HasMaliciousName(open_ports[i])})
            /\ open_ports = <<[port |-> 31337, process_name |-> SvcExe]>> =>
                  (suspicious = 1 /\ malicious = 0)
            /\ open_ports = <<[port |-> 8080, process_name |-> NetCatExe]>> =>
                  (suspicious = 0 /\ malicious = 1)

C24_Witness ==
    /\ analysis.call = "analyze_scan_data"
    /\ SubSection("security_scan", "open_ports", <<>>) =
          <<[port |-> 4444, process_name |-> NcExe]>>
    /\ Len(RecordsOfType("PUERTO_SOSPECHOSO")) = 1
    /\ Len(RecordsOfType("PROCESO_MALICIOSO")) = 1

\* C25: account rule.  Exactly one excessive-admins record is emitted when
\* more than 3 accounts are admin accounts and none when 3 or fewer are, and
\* the number of passwordless-account records equals the number of accounts
\* whose password_required flag is false: 4 admins among 5 accounts give one
\* excessive-admins record, 2 accounts with password_required=false give two
\* passwordless records.
C25_AccountRule ==
    analysis.call = "analyze_scan_data" =>
        LET user_accounts == SubSection("security_scan", "user_accounts", <<>>)
            IsAdmin(u) == "is_admin" \in DOMAIN u /\ u.is_admin
            NoPassword(u) ==
                "password_required" \in DOMAIN u /\ ~u.password_required
            admins == Cardinality({i \in 1..Len(user_accounts) :
                                      IsAdmin(user_accounts[i])})
            withoutPassword ==
                Cardinality({i \in 1..Len(user_accounts) :
                                NoPassword(user_accounts[i])})
            excessive == Len(RecordsOfType("EXCESO_ADMINISTRADORES"))
            passwordless == Len(RecordsOfType("CUENTA_SIN_PASSWORD"))
        IN  /\ admins > 3 => excessive = 1
            /\ admins <= 3 => excessive = 0
            /\ passwordless = withoutPassword
            /\ (Len(user_accounts) = 5 /\ admins = 4) => excessive = 1
            /\ withoutPassword = 2 =>
                  passwordless = 2

C25_Witness ==
    /\ analysis.call = "analyze_scan_data"
    /\ SubSection("security_scan", "user_accounts", <<>>) =
          <<AdminAccount, AdminAccount, BareAccount, RootAccount, RootAccount>>
    /\ Len(RecordsOfType("EXCESO_ADMINISTRADORES")) = 1
    /\ Len(RecordsOfType("CUENTA_SIN_PASSWORD")) = 2

\* C26: security-events rule.  Exactly one repeated-login-failure record is
\* emitted when more than 10 events carry the failed-logon identifier and
\* none when 10 or fewer do; the record's evidence holds the full count and
\* at most 5 events, which are the first 5 matching events in payload order.
C26_SecurityEventsRule ==
    analysis.call = "analyze_scan_data" =>
        LET security_events == SubSection("security_scan", "security_events", <<>>)
            IsFailedLogon(e) == "event_id" \in DOMAIN e /\ e.event_id = 4625
            matching == {i \in 1..Len(security_events) :
                            IsFailedLogon(security_events[i])}
            count == Cardinality(matching)
            \* the position of the k-th matching event
            Nth(k) == CHOOSE i \in matching :
                          Cardinality({j \in matching : j <= i}) = k
            records == RecordsOfType("MULTIPLES_INTENTOS_LOGIN")
        IN  /\ count <= 10 => records = <<>>
            /\ count > 10 =>
                  /\ Len(records) = 1
                  /\ records[1].evidence.failed_login_count = count
                  /\ Len(records[1].evidence.events) = 5
                  /\ \A k \in 1..5 :
                        records[1].evidence.events[k] = security_events[Nth(k)]

C26_Witness ==
    /\ analysis.call = "analyze_scan_data"
    /\ SubSection("security_scan", "security_events", <<>>) =
          SecurityEventList(12, {}, {2})
    /\ Len(RecordsOfType("MULTIPLES_INTENTOS_LOGIN")) = 1
    /\ RecordsOfType("MULTIPLES_INTENTOS_LOGIN")[1].evidence.failed_login_count = 11
    /\ [k \in 1..5 |->
          RecordsOfType("MULTIPLES_INTENTOS_LOGIN")[1].evidence.events[k].record_id]
          = <<1, 3, 4, 5, 6>>

\* the PATH of the payload under analysis, lowercased, and the fragments
\* reported for it
PathRecords == RecordsOfType("PATH_MODIFICADO")

LowerPath ==
    Lower(Get(SubSection("system_health", "environment_variables", EmptyDict),
              "PATH", <<>>))

\* C27 as stated: the fixed suspicious fragments are temp/tmp directory
\* fragments; one suspicious-path record is emitted per fixed fragment that
\* is a substring of the PATH, overlapping fragments included; a PATH that
\* contains none of the temp/tmp fragments yields no record.
C27_OnlyTempFragmentsAreReported ==
    analysis.call = "analyze_scan_data" =>
        LET temp == <<"t", "e", "m", "p">>
            tmp == <<"t", "m", "p">>
        IN  /\ \A k \in 1..Len(PathRecords) :
                  \/ Contains(temp, PathRecords[k].evidence.suspicious_path)
                  \/ Contains(tmp, PathRecords[k].evidence.suspicious_path)
            /\ (~Contains(temp, LowerPath) /\ ~Contains(tmp, LowerPath)) =>
                  PathRecords = <<>>

\* C27 amended: the fixed suspicious fragments are temp, tmp,
\* appdata\local\temp and programdata; one suspicious-path record is emitted
\* per fixed fragment that is a substring of the lowercased PATH, in the
\* order of the fragments and without deduplicating overlapping fragments;
\* a PATH containing none of the four yields no record.
C27_OneRecordPerFragmentFound ==
    analysis.call = "analyze_scan_data" =>
        LET found == {i \in 1..Len(suspicious_paths) :
                         Contains(suspicious_paths[i], LowerPath)}
        IN  /\ Len(suspicious_paths) = 4
            /\ Len(PathRecords) = Cardinality(found)
            /\ \A i \in found :
                  Cardinality({k \in 1..Len(PathRecords) :
                      PathRecords[k].evidence.suspicious_path =
                          suspicious_paths[i]}) = 1
            /\ \A k \in 1..Len(PathRecords), l \in 1..Len(PathRecords) :
                  k < l =>
                      \E i \in found, j \in found :
                          /\ i < j
                          /\ PathRecords[k].evidence.suspicious_path = suspicious_paths[i]
                          /\ PathRecords[l].evidence.suspicious_path = suspicious_paths[j]
            /\ found = {} => PathRecords = <<>>

C27_Witness ==
    /\ analysis.call = "analyze_scan_data"
    /\ LowerPath = Lower(PathAppDataLocalTemp)
    /\ Len(PathRecords) = 2
    /\ PathRecords[1].evidence.suspicious_path = suspicious_paths[1]
    /\ PathRecords[2].evidence.suspicious_path = suspicious_paths[3]

-----------------------------------------------------------------------------
(* Properties of the orchestrator loop, continued                          *)

\* C29: in every iteration of the continuous loop at most one scan is
\* performed and send_scan_data is called at most once, also when the
\* directive forces a scan and the scheduler reports the scan due in the
\* same iteration.
C29_AtMostOneScanPerIteration ==
    /\ SendCalls <= 1
    /\ forcedScan = "none" \/ schedScan = "none"

\* C30: after a remote config update has changed the scan interval while a
\* scan has already completed, next_scan_time is last_scan_time plus the new
\* interval before the next should_scan() decision.
C30_RemoteIntervalRecomputesNextScan ==
    (/\ pc = "decide"
     /\ lastOp = "config"
     /\ last_scan_time # None) =>
        next_scan_time = last_scan_time + Minutes(scan_interval_minutes)

====
